---- MODULE Spec2Model ----
(***************************************************************************)
(* Classroom booking system (src/main.py): the room registry, the five     *)
(* menu commands, and the load/save of the registry to the CSV file.       *)
(*                                                                         *)
(* Text (what input() returns and what a CSV field holds) is a sequence of *)
(* one-character strings.  The file is the sequence of rows csv.reader     *)
(* yields / csv.writer is given, each row a sequence of text fields; the   *)
(* header row is row 1.                                                    *)
(***************************************************************************)
EXTENDS Integers, Sequences, FiniteSets, TLC

\* ------------------------------------------------------------------ bounds
\* The create command is offered only while the registry has fewer rooms.
MaxRooms == 2
\* The file found at startup has at most this many data rows.
MaxFileRows == 2

\* ------------------------------------------------------------------- text
Digits == {"0", "1", "2", "3", "4", "5", "6", "7", "8", "9"}

DigitVal(c) ==
  CASE c = "0" -> 0 [] c = "1" -> 1 [] c = "2" -> 2 [] c = "3" -> 3
    [] c = "4" -> 4 [] c = "5" -> 5 [] c = "6" -> 6 [] c = "7" -> 7
    [] c = "8" -> 8 [] c = "9" -> 9

DigitChar(d) ==
  CASE d = 0 -> "0" [] d = 1 -> "1" [] d = 2 -> "2" [] d = 3 -> "3"
    [] d = 4 -> "4" [] d = 5 -> "5" [] d = 6 -> "6" [] d = 7 -> "7"
    [] d = 8 -> "8" [] d = 9 -> "9"

RECURSIVE DigitsToNat(_)
DigitsToNat(s) ==
  IF s = <<>> THEN 0
  ELSE 10 * DigitsToNat(SubSeq(s, 1, Len(s) - 1)) + DigitVal(s[Len(s)])

RECURSIVE Strip(_)
\* int() ignores surrounding whitespace.
Strip(s) ==
  IF s = <<>> THEN s
  ELSE IF s[1] = " " THEN Strip(Tail(s))
  ELSE IF s[Len(s)] = " " THEN Strip(SubSeq(s, 1, Len(s) - 1))
  ELSE s

\* int(text): ok = FALSE stands for ValueError.
ParseInt(s) ==
  LET t == Strip(s)
      signed == t # <<>> /\ t[1] \in {"+", "-"}
      d == IF signed THEN Tail(t) ELSE t
      ok == d # <<>> /\ \A i \in 1..Len(d) : d[i] \in Digits
  IN [ok |-> ok,
      val |-> IF ~ok THEN 0
              ELSE IF signed /\ t[1] = "-" THEN 0 - DigitsToNat(d)
              ELSE DigitsToNat(d)]

RECURSIVE NatToText(_)
NatToText(n) ==
  IF n < 10 THEN <<DigitChar(n)>>
  ELSE NatToText(n \div 10) \o <<DigitChar(n % 10)>>

\* str(int)
IntToText(n) == IF n < 0 THEN <<"-">> \o NatToText(0 - n) ELSE NatToText(n)

RECURSIVE Split(_)
\* text.split(';'): every ';' separates, so "5;;6" has an empty piece and
\* the empty text splits into one empty piece.
Split(s) ==
  IF \A i \in 1..Len(s) : s[i] # ";" THEN <<s>>
  ELSE LET i == CHOOSE k \in 1..Len(s) :
                  s[k] = ";" /\ \A j \in 1..(k - 1) : s[j] # ";"
       IN <<SubSeq(s, 1, i - 1)>> \o Split(SubSeq(s, i + 1, Len(s)))

RECURSIVE Join_NoSeparator(_)
\* the texts run together with nothing between them
Join_NoSeparator(ts) ==
  IF ts = <<>> THEN <<>> ELSE ts[1] \o Join_NoSeparator(Tail(ts))

RECURSIVE Join(_)
\* ";".join(texts)
Join(ts) ==
  IF ts = <<>> THEN <<>>
  ELSE IF Len(ts) = 1 THEN ts[1]
  ELSE ts[1] \o <<";">> \o Join(Tail(ts))

\* ------------------------------------------------------------------- Room
\* Room.__init__
Room(room_no, building, capacity) ==
  [room_no |-> room_no, building |-> building, capacity |-> capacity,
   booked_hours |-> <<>>]

\* Room.is_available: hour not in booked_hours
is_available(room, hour) ==
  ~(\E i \in 1..Len(room.booked_hours) : room.booked_hours[i] = hour)

RECURSIVE Insert(_, _)
\* insertion of x into an ascending sequence
Insert(s, x) ==
  IF s = <<>> THEN <<x>>
  ELSE IF x < s[1] THEN <<x>> \o s
  ELSE <<s[1]>> \o Insert(Tail(s), x)

RECURSIVE Sorted(_)
\* list.sort(): the same values in ascending order
Sorted(s) == IF s = <<>> THEN <<>> ELSE Insert(Sorted(Tail(s)), s[1])

\* book_hour that replaces the booked hours by the new one
book_hour_Overwrite(room, hour) ==
  IF ~is_available(room, hour)
  THEN [err |-> "TimeslotAlreadyBooked", room |-> room]
  ELSE [err |-> "none", room |-> [room EXCEPT !.booked_hours = <<hour>>]]

\* book_hour without the availability check
book_hour_NoCheck(room, hour) ==
  [err |-> "none",
   room |-> [room EXCEPT !.booked_hours = Sorted(Append(@, hour))]]

\* Room.book_hour: err = "TimeslotAlreadyBooked" stands for the raise, which
\* leaves the room as it was; otherwise append and sort.
book_hour(room, hour) ==
  IF ~is_available(room, hour)
  THEN [err |-> "TimeslotAlreadyBooked", room |-> room]
  ELSE [err |-> "none",
        room |-> [room EXCEPT !.booked_hours = Sorted(Append(@, hour))]]

\* find_room_by_id: the position of the first room with that room_no, 0 for
\* None.  A position stands for the reference to the Room object.
find_room_by_id(rooms, room_no) ==
  IF \E i \in 1..Len(rooms) : rooms[i].room_no = room_no
  THEN CHOOSE i \in 1..Len(rooms) :
         /\ rooms[i].room_no = room_no
         /\ \A j \in 1..(i - 1) : rooms[j].room_no # room_no
  ELSE 0

\* ------------------------------------------------------------ persistence
\* ["room_no", "building", "capacity", "booked_hours"]
FileHeader ==
  <<<<"r", "o", "o", "m", "_", "n", "o">>,
    <<"b", "u", "i", "l", "d", "i", "n", "g">>,
    <<"c", "a", "p", "a", "c", "i", "t", "y">>,
    <<"b", "o", "o", "k", "e", "d", "_", "h", "o", "u", "r", "s">>>>

RECURSIVE ParseHours(_)
\* the loop over hour_strings: int() of each piece, appended in file order
ParseHours(pieces) ==
  IF pieces = <<>> THEN [ok |-> TRUE, hours |-> <<>>]
  ELSE LET h == ParseInt(pieces[1])
           rest == ParseHours(Tail(pieces))
       IN IF h.ok /\ rest.ok
          THEN [ok |-> TRUE, hours |-> <<h.val>> \o rest.hours]
          ELSE [ok |-> FALSE, hours |-> <<>>]

\* One iteration of "for row in reader": ok = FALSE stands for the
\* IndexError (missing field) or ValueError (int) raised by the row.
ParseRow(row) ==
  IF Len(row) < 4 THEN [ok |-> FALSE, room |-> Room(<<>>, <<>>, 0)]
  ELSE LET cap == ParseInt(row[3])
           hs == IF row[4] # <<>> THEN ParseHours(Split(row[4]))
                 ELSE [ok |-> TRUE, hours |-> <<>>]
       IN IF cap.ok /\ hs.ok
          THEN [ok |-> TRUE,
                room |-> [Room(row[1], row[2], cap.val)
                            EXCEPT !.booked_hours = hs.hours]]
          ELSE [ok |-> FALSE, room |-> Room(<<>>, <<>>, 0)]

RECURSIVE LoadRows_KeepParsed(_, _)
\* the reader loop keeping the rooms parsed before the failing row
LoadRows_KeepParsed(rows, acc) ==
  IF rows = <<>> THEN [outcome |-> "loaded", rooms |-> acc]
  ELSE LET r == ParseRow(rows[1])
       IN IF r.ok THEN LoadRows_KeepParsed(Tail(rows), Append(acc, r.room))
          ELSE [outcome |-> "error", rooms |-> acc]

RECURSIVE LoadRows(_, _)
\* the reader loop: rooms accumulate in file order; an exception in any row
\* leaves the loop and the except clause returns [].
LoadRows(rows, acc) ==
  IF rows = <<>> THEN [outcome |-> "loaded", rooms |-> acc]
  ELSE LET r == ParseRow(rows[1])
       IN IF r.ok THEN LoadRows(Tail(rows), Append(acc, r.room))
          ELSE [outcome |-> "error", rooms |-> <<>>]

\* load_rooms_from_csv without the os.path.exists test: the open raises
load_rooms_from_csv_NoExistsTest(f) ==
  IF ~f.exists \/ f.rows = <<>> THEN [outcome |-> "error", rooms |-> <<>>]
  ELSE LoadRows(Tail(f.rows), <<>>)

\* load_rooms_from_csv
load_rooms_from_csv(f) ==
  IF ~f.exists THEN [outcome |-> "fresh", rooms |-> <<>>]
  ELSE IF f.rows = <<>> THEN [outcome |-> "error", rooms |-> <<>>]
  ELSE LoadRows(Tail(f.rows), <<>>)

\* the row save writes for one room
RoomRow(room) ==
  <<room.room_no, room.building, IntToText(room.capacity),
    Join([i \in 1..Len(room.booked_hours) |-> IntToText(room.booked_hours[i])])>>

\* the rows save_rooms_to_csv writes: the header, then one row per room
SaveRows(rooms) ==
  <<FileHeader>> \o [i \in 1..Len(rooms) |-> RoomRow(rooms[i])]

\* ------------------------------------------------------------------ search
\* the filter checks with the capacity comparison off by one
RoomMatches_CapacityAtMost(room, filter_building, filter_capacity_str, filter_hour_str) ==
  LET m1 == ~(filter_building # <<>> /\ room.building # filter_building)
      cap == ParseInt(filter_capacity_str)
      m2 == IF filter_capacity_str # <<>> /\ cap.ok /\ room.capacity <= cap.val
            THEN FALSE ELSE m1
      hr == ParseInt(filter_hour_str)
      inRange == 0 <= hr.val /\ hr.val <= 23
      m3 == IF filter_hour_str # <<>> /\ hr.ok /\ inRange
               /\ ~is_available(room, hr.val)
            THEN FALSE ELSE m2
  IN [matches |-> m3,
      invalid_capacity |-> IF filter_capacity_str # <<>> /\ ~cap.ok THEN 1 ELSE 0,
      invalid_hour |-> IF filter_hour_str # <<>> /\ hr.ok /\ ~inRange THEN 1 ELSE 0,
      invalid_hour_input |-> IF filter_hour_str # <<>> /\ ~hr.ok THEN 1 ELSE 0]

\* the filter checks with an out-of-range hour failing the room
RoomMatches_BadHourExcludes(room, filter_building, filter_capacity_str, filter_hour_str) ==
  LET m1 == ~(filter_building # <<>> /\ room.building # filter_building)
      cap == ParseInt(filter_capacity_str)
      m2 == IF filter_capacity_str # <<>> /\ cap.ok /\ room.capacity < cap.val
            THEN FALSE ELSE m1
      hr == ParseInt(filter_hour_str)
      inRange == 0 <= hr.val /\ hr.val <= 23
      m3 == IF filter_hour_str # <<>> /\ hr.ok
               /\ (~inRange \/ ~is_available(room, hr.val))
            THEN FALSE ELSE m2
  IN [matches |-> m3,
      invalid_capacity |-> IF filter_capacity_str # <<>> /\ ~cap.ok THEN 1 ELSE 0,
      invalid_hour |-> IF filter_hour_str # <<>> /\ hr.ok /\ ~inRange THEN 1 ELSE 0,
      invalid_hour_input |-> IF filter_hour_str # <<>> /\ ~hr.ok THEN 1 ELSE 0]

\* the filter checks with a capacity filter that is not a number failing
\* the room
RoomMatches_BadCapacityExcludes(room, filter_building, filter_capacity_str, filter_hour_str) ==
  LET m1 == ~(filter_building # <<>> /\ room.building # filter_building)
      cap == ParseInt(filter_capacity_str)
      m2 == IF filter_capacity_str # <<>>
               /\ (~cap.ok \/ room.capacity < cap.val)
            THEN FALSE ELSE m1
      hr == ParseInt(filter_hour_str)
      inRange == 0 <= hr.val /\ hr.val <= 23
      m3 == IF filter_hour_str # <<>> /\ hr.ok /\ inRange
               /\ ~is_available(room, hr.val)
            THEN FALSE ELSE m2
  IN [matches |-> m3,
      invalid_capacity |-> IF filter_capacity_str # <<>> /\ ~cap.ok THEN 1 ELSE 0,
      invalid_hour |-> IF filter_hour_str # <<>> /\ hr.ok /\ ~inRange THEN 1 ELSE 0,
      invalid_hour_input |-> IF filter_hour_str # <<>> /\ ~hr.ok THEN 1 ELSE 0]

\* One iteration of the loop of handle_find_rooms: the three filter checks
\* on one room.  An empty filter text is skipped; invalid_capacity and
\* invalid_hour count the "Invalid ..." lines the iteration prints.
RoomMatches(room, filter_building, filter_capacity_str, filter_hour_str) ==
  LET m1 == ~(filter_building # <<>> /\ room.building # filter_building)
      cap == ParseInt(filter_capacity_str)
      m2 == IF filter_capacity_str # <<>> /\ cap.ok /\ room.capacity < cap.val
            THEN FALSE ELSE m1
      hr == ParseInt(filter_hour_str)
      inRange == 0 <= hr.val /\ hr.val <= 23
      m3 == IF filter_hour_str # <<>> /\ hr.ok /\ inRange
               /\ ~is_available(room, hr.val)
            THEN FALSE ELSE m2
  IN [matches |-> m3,
      invalid_capacity |-> IF filter_capacity_str # <<>> /\ ~cap.ok THEN 1 ELSE 0,
      invalid_hour |-> IF filter_hour_str # <<>> /\ hr.ok /\ ~inRange THEN 1 ELSE 0,
      invalid_hour_input |-> IF filter_hour_str # <<>> /\ ~hr.ok THEN 1 ELSE 0]

RECURSIVE FindLoop(_, _, _, _, _, _)
\* "for room in all_rooms" of handle_find_rooms, from position i on; results
\* holds the positions of the rooms appended so far (references to them).
FindLoop(rooms, i, fb, fc, fh, acc) ==
  IF i > Len(rooms) THEN acc
  ELSE LET r == RoomMatches(rooms[i], fb, fc, fh)
       IN FindLoop(rooms, i + 1, fb, fc, fh,
            [results |-> IF r.matches THEN Append(acc.results, i)
                         ELSE acc.results,
             invalid_capacity |-> acc.invalid_capacity + r.invalid_capacity,
             invalid_hour |-> acc.invalid_hour + r.invalid_hour,
             invalid_hour_input |->
               acc.invalid_hour_input + r.invalid_hour_input])

\* the search of handle_find_rooms over the whole registry
FindRooms(rooms, fb, fc, fh) ==
  FindLoop(rooms, 1, fb, fc, fh,
           [results |-> <<>>, invalid_capacity |-> 0, invalid_hour |-> 0,
            invalid_hour_input |-> 0])

\* ------------------------------------------------------------------ inputs
\* what the user types at the prompts
RoomNoInputs == {<<"A">>, <<"B">>}
BuildingInputs == {<<"N">>, <<"L">>}
CapacityInputs == {<<"5">>, <<"-", "1">>, <<"x">>}
HourInputs == {<<"5">>, <<"2", "4">>, <<"-", "1">>, <<"x">>}
FilterBuildingInputs == {<<>>, <<"N">>}
FilterCapacityInputs == {<<>>, <<"5">>, <<"x">>}
FilterHourInputs == {<<>>, <<"5">>, <<"2", "3">>, <<"2", "4">>, <<"x">>}

\* rows a file found at startup may hold: well-formed rows (one with hour
\* 23 booked, one with repeated, unordered and out-of-range hours, one with
\* a negative capacity), and rows that fail to parse (capacity, missing
\* field, hour)
SampleRows ==
  { <<<<"A">>, <<"N">>, <<" ", "5">>, <<"2", "3">>>>,
    <<<<"A">>, <<"L">>, <<"5", "0">>, <<"2", "4", ";", "5", ";", "5">>>>,
    <<<<"B">>, <<"N">>, <<"-", "1">>, <<>>>>,
    <<<<"B">>, <<"N">>, <<"x">>, <<>>>>,
    <<<<"B">>, <<"N">>>>,
    <<<<"B">>, <<"L">>, <<"5">>, <<"5", ";", "x">>>> }

NoFile == [exists |-> FALSE, rows |-> <<>>]

\* the states of data.csv at startup: absent, empty (no header), or a
\* header followed by up to MaxFileRows rows
InitFiles ==
  {NoFile, [exists |-> TRUE, rows |-> <<>>]}
    \cup {[exists |-> TRUE, rows |-> <<FileHeader>> \o body] :
            body \in UNION {[1..k -> SampleRows] : k \in 0..MaxFileRows}}

\* ------------------------------------------------------------------- state
VARIABLES
  pc,         \* "start" before the load, "menu" at the choice prompt,
              \* "pause" at "Press Enter to continue...", "done" after exit
  file,       \* data.csv: [exists, rows]
  all_rooms,  \* the registry: sequence of rooms
  last,       \* the command just run: its inputs, the error raised, the
              \* message and the results printed (NoCommand at the prompt)
  booked      \* history: the <<room_no, hour>> of every successful book

vars == <<pc, file, all_rooms, last, booked>>

NoCommand ==
  [cmd |-> "none", room_no |-> <<>>, building |-> <<>>, capacity |-> <<>>,
   hour |-> <<>>, err |-> "none", msg |-> "none", results |-> <<>>,
   invalid_capacity |-> 0, invalid_hour |-> 0, invalid_hour_input |-> 0]

Init ==
  /\ pc = "start"
  /\ file \in InitFiles
  /\ all_rooms = <<>>
  /\ last = NoCommand
  /\ booked = {}

\* all_rooms = load_rooms_from_csv(csv_filename)
Load ==
  /\ pc = "start"
  /\ LET r == load_rooms_from_csv(file)
     IN /\ all_rooms' = r.rooms
        /\ last' = [NoCommand EXCEPT !.cmd = "load", !.msg = r.outcome]
  /\ pc' = "menu"
  /\ UNCHANGED <<file, booked>>

\* handle_create_room without the lookup of the room identifier
handle_create_room_NoLookup(room_no, building, capacity_str) ==
  /\ pc = "menu"
  /\ LET cmd == [NoCommand EXCEPT !.cmd = "create", !.room_no = room_no,
                   !.building = building, !.capacity = capacity_str]
         capacity == ParseInt(capacity_str)
     IN IF ~capacity.ok
        THEN /\ last' = [cmd EXCEPT !.msg = "Capacity must be a number"]
             /\ UNCHANGED all_rooms
        ELSE /\ Len(all_rooms) < MaxRooms
             /\ all_rooms' = Append(all_rooms, Room(room_no, building, capacity.val))
             /\ last' = [cmd EXCEPT !.msg = "Success"]
  /\ pc' = "pause"
  /\ UNCHANGED <<file, booked>>

\* handle_create_room putting the new room first
handle_create_room_Prepend(room_no, building, capacity_str) ==
  /\ pc = "menu"
  /\ LET cmd == [NoCommand EXCEPT !.cmd = "create", !.room_no = room_no,
                   !.building = building, !.capacity = capacity_str]
         capacity == ParseInt(capacity_str)
     IN IF find_room_by_id(all_rooms, room_no) # 0
        THEN /\ last' = [cmd EXCEPT !.err = "RoomAlreadyExists"]
             /\ UNCHANGED all_rooms
        ELSE IF ~capacity.ok
        THEN /\ last' = [cmd EXCEPT !.msg = "Capacity must be a number"]
             /\ UNCHANGED all_rooms
        ELSE /\ Len(all_rooms) < MaxRooms
             /\ all_rooms' = <<Room(room_no, building, capacity.val)>> \o all_rooms
             /\ last' = [cmd EXCEPT !.msg = "Success"]
  /\ pc' = "pause"
  /\ UNCHANGED <<file, booked>>

\* choice '1'
handle_create_room(room_no, building, capacity_str) ==
  /\ pc = "menu"
  /\ LET cmd == [NoCommand EXCEPT !.cmd = "create", !.room_no = room_no,
                   !.building = building, !.capacity = capacity_str]
         capacity == ParseInt(capacity_str)
     IN IF find_room_by_id(all_rooms, room_no) # 0
        THEN /\ last' = [cmd EXCEPT !.err = "RoomAlreadyExists"]
             /\ UNCHANGED all_rooms
        ELSE IF ~capacity.ok
        THEN /\ last' = [cmd EXCEPT !.msg = "Capacity must be a number"]
             /\ UNCHANGED all_rooms
        ELSE /\ Len(all_rooms) < MaxRooms
             /\ all_rooms' = Append(all_rooms, Room(room_no, building, capacity.val))
             /\ last' = [cmd EXCEPT !.msg = "Success"]
  /\ pc' = "pause"
  /\ UNCHANGED <<file, booked>>

\* handle_book_room reading and checking the hour before resolving the room
handle_book_room_HourFirst(room_no, hour_str) ==
  /\ pc = "menu"
  /\ LET cmd == [NoCommand EXCEPT !.cmd = "book", !.room_no = room_no,
                   !.hour = hour_str]
         room == find_room_by_id(all_rooms, room_no)
         hour == ParseInt(hour_str)
     IN IF ~hour.ok
        THEN /\ last' = [cmd EXCEPT !.msg = "Hour must be a number"]
             /\ UNCHANGED <<all_rooms, booked>>
        ELSE IF ~(0 <= hour.val /\ hour.val <= 23)
        THEN /\ last' = [cmd EXCEPT !.msg = "Hour must be between 0 and 23"]
             /\ UNCHANGED <<all_rooms, booked>>
        ELSE IF room = 0
        THEN /\ last' = [cmd EXCEPT !.err = "RoomNotFound"]
             /\ UNCHANGED <<all_rooms, booked>>
        ELSE LET b == book_hour(all_rooms[room], hour.val)
             IN IF b.err # "none"
                THEN /\ last' = [cmd EXCEPT !.err = b.err]
                     /\ UNCHANGED <<all_rooms, booked>>
                ELSE /\ all_rooms' = [all_rooms EXCEPT ![room] = b.room]
                     /\ last' = [cmd EXCEPT !.msg = "Success"]
                     /\ booked' = booked \cup {<<room_no, hour.val>>}
  /\ pc' = "pause"
  /\ UNCHANGED file

\* handle_book_room without the test of the hour against 0..23
handle_book_room_NoRangeTest(room_no, hour_str) ==
  /\ pc = "menu"
  /\ LET cmd == [NoCommand EXCEPT !.cmd = "book", !.room_no = room_no,
                   !.hour = hour_str]
         room == find_room_by_id(all_rooms, room_no)
         hour == ParseInt(hour_str)
     IN IF room = 0
        THEN /\ last' = [cmd EXCEPT !.err = "RoomNotFound"]
             /\ UNCHANGED <<all_rooms, booked>>
        ELSE IF ~hour.ok
        THEN /\ last' = [cmd EXCEPT !.msg = "Hour must be a number"]
             /\ UNCHANGED <<all_rooms, booked>>
        ELSE LET b == book_hour(all_rooms[room], hour.val)
             IN IF b.err # "none"
                THEN /\ last' = [cmd EXCEPT !.err = b.err]
                     /\ UNCHANGED <<all_rooms, booked>>
                ELSE /\ all_rooms' = [all_rooms EXCEPT ![room] = b.room]
                     /\ last' = [cmd EXCEPT !.msg = "Success"]
                     /\ booked' = booked \cup {<<room_no, hour.val>>}
  /\ pc' = "pause"
  /\ UNCHANGED file

\* choice '2'
handle_book_room(room_no, hour_str) ==
  /\ pc = "menu"
  /\ LET cmd == [NoCommand EXCEPT !.cmd = "book", !.room_no = room_no,
                   !.hour = hour_str]
         room == find_room_by_id(all_rooms, room_no)
         hour == ParseInt(hour_str)
     IN IF room = 0
        THEN /\ last' = [cmd EXCEPT !.err = "RoomNotFound"]
             /\ UNCHANGED <<all_rooms, booked>>
        ELSE IF ~hour.ok
        THEN /\ last' = [cmd EXCEPT !.msg = "Hour must be a number"]
             /\ UNCHANGED <<all_rooms, booked>>
        ELSE IF ~(0 <= hour.val /\ hour.val <= 23)
        THEN /\ last' = [cmd EXCEPT !.msg = "Hour must be between 0 and 23"]
             /\ UNCHANGED <<all_rooms, booked>>
        ELSE LET b == book_hour(all_rooms[room], hour.val)
             IN IF b.err # "none"
                THEN /\ last' = [cmd EXCEPT !.err = b.err]
                     /\ UNCHANGED <<all_rooms, booked>>
                ELSE /\ all_rooms' = [all_rooms EXCEPT ![room] = b.room]
                     /\ last' = [cmd EXCEPT !.msg = "Success"]
                     /\ booked' = booked \cup {<<room_no, hour.val>>}
  /\ pc' = "pause"
  /\ UNCHANGED file

\* handle_find_rooms that keeps only the matching rooms in the registry
handle_find_rooms_InPlace(filter_building, filter_capacity_str, filter_hour_str) ==
  /\ pc = "menu"
  /\ LET f == FindRooms(all_rooms, filter_building, filter_capacity_str,
                        filter_hour_str)
     IN /\ last' = [NoCommand EXCEPT !.cmd = "search",
                      !.building = filter_building,
                      !.capacity = filter_capacity_str,
                      !.hour = filter_hour_str,
                      !.results = [k \in 1..Len(f.results) |-> k],
                      !.invalid_capacity = f.invalid_capacity,
                      !.invalid_hour = f.invalid_hour,
                      !.invalid_hour_input = f.invalid_hour_input,
                      !.msg = IF f.results = <<>> THEN "No rooms found"
                              ELSE "Found"]
        /\ all_rooms' = [k \in 1..Len(f.results) |-> all_rooms[f.results[k]]]
  /\ pc' = "pause"
  /\ UNCHANGED <<file, booked>>

\* choice '3'
handle_find_rooms(filter_building, filter_capacity_str, filter_hour_str) ==
  /\ pc = "menu"
  /\ LET f == FindRooms(all_rooms, filter_building, filter_capacity_str,
                        filter_hour_str)
     IN last' = [NoCommand EXCEPT !.cmd = "search",
                   !.building = filter_building,
                   !.capacity = filter_capacity_str,
                   !.hour = filter_hour_str,
                   !.results = f.results,
                   !.invalid_capacity = f.invalid_capacity,
                   !.invalid_hour = f.invalid_hour,
                   !.invalid_hour_input = f.invalid_hour_input,
                   !.msg = IF f.results = <<>> THEN "No rooms found"
                           ELSE "Found"]
  /\ pc' = "pause"
  /\ UNCHANGED <<file, all_rooms, booked>>

\* handle_view_schedule whose RoomNotFound is not caught and ends the program
handle_view_schedule_Uncaught(room_no) ==
  /\ pc = "menu"
  /\ LET room == find_room_by_id(all_rooms, room_no)
         cmd == [NoCommand EXCEPT !.cmd = "view", !.room_no = room_no]
     IN IF room = 0
        THEN /\ last' = [cmd EXCEPT !.err = "RoomNotFound"]
             /\ pc' = "done"
        ELSE /\ last' = [cmd EXCEPT !.msg = "Details", !.results = <<room>>]
             /\ pc' = "pause"
  /\ UNCHANGED <<file, all_rooms, booked>>

\* choice '4'
handle_view_schedule(room_no) ==
  /\ pc = "menu"
  /\ LET room == find_room_by_id(all_rooms, room_no)
         cmd == [NoCommand EXCEPT !.cmd = "view", !.room_no = room_no]
     IN IF room = 0
        THEN last' = [cmd EXCEPT !.err = "RoomNotFound"]
        ELSE last' = [cmd EXCEPT !.msg = "Details", !.results = <<room>>]
  /\ pc' = "pause"
  /\ UNCHANGED <<file, all_rooms, booked>>

\* the ways the write of the file can go: every row written, open(mode='w')
\* fails, or a write fails after `written` rows
SaveOutcomes(rooms) ==
  {[fails |-> "no", written |-> Len(rooms) + 1],
   [fails |-> "open", written |-> 0]}
    \cup {[fails |-> "write", written |-> k] : k \in 0..Len(rooms)}

\* save_rooms_to_csv: the file it leaves.  A failed open leaves the file as
\* it was; a failed write leaves the rows written before it.
save_rooms_to_csv(f, rooms, io) ==
  IF io.fails = "open" THEN f
  ELSE [exists |-> TRUE, rows |-> SubSeq(SaveRows(rooms), 1, io.written)]

\* the exit that leaves the loop without writing the file
Exit_NoSave ==
  /\ pc = "menu"
  /\ file' = file
  /\ last' = [NoCommand EXCEPT !.cmd = "exit",
                !.msg = "Data saved successfully"]
  /\ pc' = "done"
  /\ UNCHANGED <<all_rooms, booked>>

\* choice '5': save, "Goodbye!", break
Exit ==
  /\ pc = "menu"
  /\ \E io \in SaveOutcomes(all_rooms) :
       /\ file' = save_rooms_to_csv(file, all_rooms, io)
       /\ last' = [NoCommand EXCEPT !.cmd = "exit",
                     !.msg = IF io.fails = "no" THEN "Data saved successfully"
                             ELSE "Error saving data"]
  /\ pc' = "done"
  /\ UNCHANGED <<all_rooms, booked>>

\* any other choice
InvalidChoice ==
  /\ pc = "menu"
  /\ last' = [NoCommand EXCEPT !.cmd = "invalid", !.msg = "Invalid choice"]
  /\ pc' = "pause"
  /\ UNCHANGED <<file, all_rooms, booked>>

\* input("Press Enter to continue..."), then the menu again
Continue ==
  /\ pc = "pause"
  /\ pc' = "menu"
  /\ last' = NoCommand
  /\ UNCHANGED <<file, all_rooms, booked>>

CreateRoom ==
  \E room_no \in RoomNoInputs, building \in BuildingInputs,
     capacity_str \in CapacityInputs :
    handle_create_room(room_no, building, capacity_str)

BookRoom ==
  \E room_no \in RoomNoInputs, hour_str \in HourInputs :
    handle_book_room(room_no, hour_str)

FindAvailableRooms ==
  \E fb \in FilterBuildingInputs, fc \in FilterCapacityInputs,
     fh \in FilterHourInputs :
    handle_find_rooms(fb, fc, fh)

ViewSchedule == \E room_no \in RoomNoInputs : handle_view_schedule(room_no)

Next ==
  \/ Load
  \/ CreateRoom
  \/ BookRoom
  \/ FindAvailableRooms
  \/ ViewSchedule
  \/ Exit
  \/ InvalidChoice
  \/ Continue

Spec == Init /\ [][Next]_vars

\* ------------------------------------------------------------ properties
\* the values of a sequence
Elems(seq) == {seq[i] : i \in 1..Len(seq)}

\* the number of occurrences of x in seq
Count(seq, x) == Cardinality({i \in 1..Len(seq) : seq[i] = x})

\* C1: in every reachable state every room's booked_hours holds no value
\* twice and only values in 0..23.
C1_BookedHoursUniqueInRange ==
  \A i \in 1..Len(all_rooms) :
    LET bh == all_rooms[i].booked_hours
    IN /\ \A j \in 1..Len(bh) : bh[j] \in 0..23
       /\ \A j, k \in 1..Len(bh) : j # k => bh[j] # bh[k]

\* C2: in every reachable state no two rooms of the registry have the same
\* room identifier.
C2_RoomIdsUnique ==
  \A i, j \in 1..Len(all_rooms) :
    i # j => all_rooms[i].room_no # all_rooms[j].room_no

\* C3: whenever a book command calls book_hour(h) on a room that already
\* has h booked, the command ends with TimeslotAlreadyBooked and the registry
\* is as before; and a book_hour(h) that succeeds leaves exactly one h in the
\* room the same room identifier resolves to, so that the same call made
\* again at once is such a failing call.
C3_RebookFails ==
  [][ (pc = "menu" /\ last'.cmd = "book") =>
        LET r == find_room_by_id(all_rooms, last'.room_no)
            h == ParseInt(last'.hour)
            called == r # 0 /\ h.ok /\ h.val \in 0..23
        IN /\ (called /\ h.val \in Elems(all_rooms[r].booked_hours))
                => /\ last'.err = "TimeslotAlreadyBooked"
                   /\ all_rooms' = all_rooms
           /\ (called /\ h.val \notin Elems(all_rooms[r].booked_hours))
                => /\ last'.err = "none" /\ last'.msg = "Success"
                   /\ find_room_by_id(all_rooms', last'.room_no) = r
                   /\ Count(all_rooms'[r].booked_hours, h.val) = 1
    ]_vars

\* C3 witness: hour 5 was booked on a room in this session and a further
\* book of hour 5 on it has just failed, leaving one 5.
C3_Witness ==
  /\ pc = "pause" /\ last.cmd = "book"
  /\ last.err = "TimeslotAlreadyBooked"
  /\ <<last.room_no, ParseInt(last.hour).val>> \in booked
  /\ LET r == find_room_by_id(all_rooms, last.room_no)
     IN Count(all_rooms[r].booked_hours, ParseInt(last.hour).val) = 1

\* C4: a create whose room identifier is already in the registry ends with
\* RoomAlreadyExists whatever building and capacity go with it, and leaves
\* the registry unchanged.
C4_CreateExistingFails ==
  [][ (pc = "menu" /\ last'.cmd = "create"
         /\ \E i \in 1..Len(all_rooms) : all_rooms[i].room_no = last'.room_no)
        => /\ last'.err = "RoomAlreadyExists"
           /\ all_rooms' = all_rooms
    ]_vars

\* C4 witness: a create of an existing identifier, with a capacity that is
\* not a number, has just failed with RoomAlreadyExists.
C4_Witness ==
  /\ pc = "pause" /\ last.cmd = "create"
  /\ last.err = "RoomAlreadyExists"
  /\ last.capacity = <<"x">>
  /\ Len(all_rooms) = 2
  /\ \E i \in 1..Len(all_rooms) : all_rooms[i].room_no = last.room_no

\* C5: a book for a room identifier that is not in the registry ends with
\* RoomNotFound and leaves the registry unchanged, for every hour typed.
C5_BookUnknownRoomFails ==
  [][ (pc = "menu" /\ last'.cmd = "book"
         /\ \A i \in 1..Len(all_rooms) : all_rooms[i].room_no # last'.room_no)
        => /\ last'.err = "RoomNotFound"
           /\ all_rooms' = all_rooms
    ]_vars

\* C5 witness: a book of an unknown room with an hour outside 0..23 has just
\* failed with RoomNotFound in a registry that holds another room.
C5_Witness ==
  /\ pc = "pause" /\ last.cmd = "book"
  /\ last.err = "RoomNotFound"
  /\ last.hour = <<"2", "4">>
  /\ Len(all_rooms) >= 1
  /\ \A i \in 1..Len(all_rooms) : all_rooms[i].room_no # last.room_no

\* C6: when the exit command has saved the registry, a load of the file it
\* wrote yields the same registry: the same rooms in the same order, each
\* with the same identifier, building, capacity and booked hours.
C6_SaveLoadRoundTrip ==
  (pc = "done" /\ last.msg = "Data saved successfully")
    => LET l == load_rooms_from_csv(file)
       IN /\ l.outcome = "loaded"
          /\ Len(l.rooms) = Len(all_rooms)
          /\ \A i \in 1..Len(all_rooms) :
               /\ l.rooms[i].room_no = all_rooms[i].room_no
               /\ l.rooms[i].building = all_rooms[i].building
               /\ l.rooms[i].capacity = all_rooms[i].capacity
               /\ l.rooms[i].booked_hours = all_rooms[i].booked_hours

\* C6 witness: a registry of two rooms, one with a negative capacity and one
\* with several booked hours, has been saved.
C6_Witness ==
  /\ pc = "done" /\ last.msg = "Data saved successfully"
  /\ Len(all_rooms) = 2
  /\ \E i \in 1..Len(all_rooms) : all_rooms[i].capacity < 0
  /\ \E i \in 1..Len(all_rooms) : Len(all_rooms[i].booked_hours) >= 2

\* a filter text that is a number
IsInt(text) == ParseInt(text).ok

\* the rooms a search is to return: those that satisfy every filter in
\* force (building equal, capacity at least the minimum, hour not booked)
Satisfies(room, useBuilding, fb, useCapacity, minCap, useHour, h) ==
  /\ useBuilding => room.building = fb
  /\ useCapacity => room.capacity >= minCap
  /\ useHour => h \notin Elems(room.booked_hours)

\* results lists, in registry order, exactly the positions in wanted
ListsInOrder(results, wanted) ==
  /\ Elems(results) = wanted
  /\ \A j, k \in 1..Len(results) : j < k => results[j] < results[k]

\* C7: a search whose filters are all empty or valid (capacity a number,
\* hour a number in 0..23) returns exactly the rooms that satisfy every
\* non-empty filter, in registry order; with no filter, every room.
C7_SearchExact ==
  (pc = "pause" /\ last.cmd = "search"
     /\ (last.capacity = <<>> \/ IsInt(last.capacity))
     /\ (last.hour = <<>>
           \/ (IsInt(last.hour) /\ ParseInt(last.hour).val \in 0..23)))
    => /\ ListsInOrder(last.results,
            {i \in 1..Len(all_rooms) :
               Satisfies(all_rooms[i],
                         last.building # <<>>, last.building,
                         last.capacity # <<>>, ParseInt(last.capacity).val,
                         last.hour # <<>>, ParseInt(last.hour).val)})
       /\ (last.building = <<>> /\ last.capacity = <<>> /\ last.hour = <<>>)
            => last.results = [i \in 1..Len(all_rooms) |-> i]

\* C7 witness: a search with the three filters given and valid has returned
\* one of two rooms.
C7_Witness ==
  /\ pc = "pause" /\ last.cmd = "search"
  /\ last.building # <<>> /\ IsInt(last.capacity) /\ IsInt(last.hour)
  /\ ParseInt(last.hour).val \in 0..23
  /\ Len(all_rooms) = 2 /\ Len(last.results) = 1
  /\ \E i \in 1..Len(all_rooms) :
       /\ all_rooms[i].building = last.building
       /\ all_rooms[i].capacity < ParseInt(last.capacity).val

\* C8: once book(r, h) has succeeded, a search with hour filter h returns no
\* room with identifier r; and a search with only an hour filter h' in 0..23
\* returns every room on which h' is not booked.
C8_BookedRoomExcluded ==
  (pc = "pause" /\ last.cmd = "search" /\ IsInt(last.hour))
    => LET h == ParseInt(last.hour).val
       IN /\ \A k \in 1..Len(last.results) :
               <<all_rooms[last.results[k]].room_no, h>> \notin booked
          /\ (h \in 0..23 /\ last.building = <<>> /\ last.capacity = <<>>)
               => \A i \in 1..Len(all_rooms) :
                    h \notin Elems(all_rooms[i].booked_hours)
                      => i \in Elems(last.results)

\* C9 as claimed: a search with an hour filter that is a number outside
\* 0..23 reports it for every room and returns no room.
C9_OutOfRangeHourExcludes ==
  (pc = "pause" /\ last.cmd = "search" /\ IsInt(last.hour)
     /\ ParseInt(last.hour).val \notin 0..23)
    => /\ last.invalid_hour = Len(all_rooms)
       /\ last.results = <<>>

\* C9: a search with an hour filter that is a number outside 0..23 reports
\* it once for every room of the registry and otherwise skips the hour
\* filter: it returns, in registry order, the rooms that satisfy the building
\* filter and the minimum capacity (when that one is a number).
C9_OutOfRangeHourSkipped ==
  (pc = "pause" /\ last.cmd = "search" /\ IsInt(last.hour)
     /\ ParseInt(last.hour).val \notin 0..23)
    => /\ last.invalid_hour = Len(all_rooms)
       /\ ListsInOrder(last.results,
            {i \in 1..Len(all_rooms) :
               Satisfies(all_rooms[i],
                         last.building # <<>>, last.building,
                         last.capacity # <<>> /\ IsInt(last.capacity),
                         ParseInt(last.capacity).val,
                         FALSE, 0)})

\* C9 witness: a search with hour filter 24 and a building filter over two
\* rooms has reported the hour twice and returned one room.
C9_Witness ==
  /\ pc = "pause" /\ last.cmd = "search"
  /\ last.hour = <<"2", "4">> /\ last.building # <<>>
  /\ Len(all_rooms) = 2 /\ last.invalid_hour = 2
  /\ Len(last.results) = 1

\* a row that raises during load: a missing field, a capacity that is not a
\* number, or a booked hour that is not a number
RowFails(row) ==
  \/ Len(row) < 4
  \/ ~IsInt(row[3])
  \/ /\ row[4] # <<>>
     /\ \E p \in Elems(Split(row[4])) : ~IsInt(p)

\* a file the load cannot parse: no header row, or a row that raises
FileFailsToParse(f) ==
  /\ f.exists
  /\ \/ f.rows = <<>>
     \/ \E i \in 2..Len(f.rows) : RowFails(f.rows[i])

\* C10: when the header is missing or any row fails to parse, the load
\* yields the empty registry, whatever rows came before, and the program
\* goes on to the menu.
C10_LoadFailureEmpties ==
  [][ (pc = "start" /\ FileFailsToParse(file))
        => /\ all_rooms' = <<>>
           /\ last'.cmd = "load" /\ last'.msg = "error"
           /\ pc' = "menu"
    ]_vars

\* C10 witness: the load of a file whose first row is well formed and whose
\* second row fails has left the registry empty at the menu.
C10_Witness ==
  /\ pc = "menu" /\ last.cmd = "load" /\ last.msg = "error"
  /\ Len(file.rows) = 3
  /\ ~RowFails(file.rows[2]) /\ RowFails(file.rows[3])
  /\ all_rooms = <<>>

\* the errors the core raises
DomainErrors == {"RoomNotFound", "RoomAlreadyExists", "TimeslotAlreadyBooked"}

\* C11: the load at startup when no file exists yields the empty registry,
\* reports a fresh start and not an error, and leaves the file absent.
C11_LoadMissingFile ==
  [][ (pc = "start" /\ ~file.exists)
        => /\ all_rooms' = <<>>
           /\ last'.cmd = "load" /\ last'.msg = "fresh" /\ last'.err = "none"
           /\ file' = file
           /\ pc' = "menu"
    ]_vars

\* C11 witness: the program is at the menu after a load with no file.
C11_Witness ==
  /\ pc = "menu" /\ last.cmd = "load" /\ last.msg = "fresh"
  /\ ~file.exists /\ all_rooms = <<>>

\* C12: a command that ended in a domain error leaves the program in the
\* loop, from where the menu and its commands come next; the program is
\* done only after the exit command.
C12_DomainErrorsNotFatal ==
  /\ last.err \in DomainErrors
       => /\ pc = "pause"
          /\ ENABLED (Continue /\ pc' = "menu" /\ all_rooms' = all_rooms)
  /\ pc = "menu" => (ENABLED CreateRoom /\ ENABLED BookRoom /\ ENABLED Exit)
  /\ pc = "done" => last.cmd = "exit"

\* C12 witness: a book has just failed with TimeslotAlreadyBooked after a
\* create in the same session, and the loop goes on.
C12_Witness ==
  /\ pc = "pause" /\ last.cmd = "book"
  /\ last.err = "TimeslotAlreadyBooked"
  /\ booked # {}
  /\ ENABLED Continue

\* C13: the file is read by the load at startup only and changed by the exit
\* command only: every other step leaves it as it is; the exit command
\* leaves what the save of the current registry leaves (all its rows when it
\* reports success), ends the program whether the save failed or not, and
\* nothing runs after it.
C13_FileOnlyWrittenAtExit ==
  [][ /\ file' # file => (pc = "menu" /\ last'.cmd = "exit")
      /\ last'.cmd = "load" => pc = "start"
      /\ pc' # "start"
      /\ (pc = "menu" /\ last'.cmd = "exit")
           => /\ pc' = "done"
              /\ all_rooms' = all_rooms
              /\ \/ file' = file
                 \/ /\ file'.exists
                    /\ \E k \in 0..(Len(all_rooms) + 1) :
                         file'.rows = SubSeq(SaveRows(all_rooms), 1, k)
              /\ last'.msg \in {"Data saved successfully", "Error saving data"}
              /\ last'.msg = "Data saved successfully"
                   => file' = [exists |-> TRUE, rows |-> SaveRows(all_rooms)]
      /\ pc # "done"
    ]_vars

\* C13 witness: the exit command has ended the program after a failed save
\* that left only part of a two-room registry in the file.
C13_Witness ==
  /\ pc = "done" /\ last.cmd = "exit" /\ last.msg = "Error saving data"
  /\ Len(all_rooms) = 2
  /\ file.exists /\ Len(file.rows) = 2

\* C14: in every reachable state every room's capacity is non-negative.
C14_CapacityNonNegative ==
  \A i \in 1..Len(all_rooms) : all_rooms[i].capacity >= 0

\* C15: in every reachable state every room's booked_hours is in ascending
\* order.
C15_BookedHoursAscending ==
  \A i \in 1..Len(all_rooms) :
    LET bh == all_rooms[i].booked_hours
    IN \A j, k \in 1..Len(bh) : j < k => bh[j] <= bh[k]

\* C16: in a session no step removes or changes a room or removes a booked
\* hour: every room stays at its position with its identifier, building and
\* capacity, and every booked hour stays booked as often as it was.
C16_RegistryOnlyGrows ==
  [][ pc # "start" =>
        /\ Len(all_rooms') >= Len(all_rooms)
        /\ \A i \in 1..Len(all_rooms) :
             /\ all_rooms'[i].room_no = all_rooms[i].room_no
             /\ all_rooms'[i].building = all_rooms[i].building
             /\ all_rooms'[i].capacity = all_rooms[i].capacity
             /\ \A h \in Elems(all_rooms[i].booked_hours) :
                  Count(all_rooms'[i].booked_hours, h)
                    >= Count(all_rooms[i].booked_hours, h)
    ]_vars

\* C16 witness: an hour has just been booked on a room of a two-room
\* registry that had an hour booked before.
C16_Witness ==
  /\ pc = "pause" /\ last.cmd = "book" /\ last.msg = "Success"
  /\ Len(all_rooms) = 2
  /\ Len(all_rooms[find_room_by_id(all_rooms, last.room_no)].booked_hours) >= 2

\* the filters of the search just run that are in force: given and valid
SearchWanted ==
  {i \in 1..Len(all_rooms) :
     Satisfies(all_rooms[i],
               last.building # <<>>, last.building,
               last.capacity # <<>> /\ IsInt(last.capacity),
               ParseInt(last.capacity).val,
               last.hour # <<>> /\ IsInt(last.hour)
                 /\ ParseInt(last.hour).val \in 0..23,
               ParseInt(last.hour).val)}

\* C17 as claimed, for search: a filter that is not a number aborts the
\* search with a printed message, so that no room is listed.
C17_SearchParseErrorAborts ==
  (pc = "pause" /\ last.cmd = "search"
     /\ \/ (last.capacity # <<>> /\ ~IsInt(last.capacity))
        \/ (last.hour # <<>> /\ ~IsInt(last.hour)))
    => /\ last.err = "none"
       /\ last.invalid_capacity + last.invalid_hour_input >= 1
       /\ last.results = <<>>

\* C17: a capacity that is not a number in a create of a new identifier,
\* and an hour that is not a number in a book of an existing room, end the
\* command with a message, no domain error and the registry unchanged; a
\* capacity or hour filter that is not a number does not end the search: it
\* is reported once for every room of the registry (not at all when the
\* registry is empty) and skipped, the search lists the rooms that satisfy
\* the other filters, raises no domain error and leaves the registry
\* unchanged.
C17_ParseErrors ==
  [][ pc = "menu" =>
        /\ (last'.cmd = "create"
              /\ find_room_by_id(all_rooms, last'.room_no) = 0
              /\ ~IsInt(last'.capacity))
             => /\ last'.msg = "Capacity must be a number"
                /\ last'.err = "none"
                /\ all_rooms' = all_rooms
        /\ (last'.cmd = "book"
              /\ find_room_by_id(all_rooms, last'.room_no) # 0
              /\ ~IsInt(last'.hour))
             => /\ last'.msg = "Hour must be a number"
                /\ last'.err = "none"
                /\ all_rooms' = all_rooms
        /\ (last'.cmd = "search"
              /\ \/ (last'.capacity # <<>> /\ ~IsInt(last'.capacity))
                 \/ (last'.hour # <<>> /\ ~IsInt(last'.hour)))
             => /\ last'.err = "none"
                /\ all_rooms' = all_rooms
                /\ last'.invalid_capacity =
                     IF last'.capacity # <<>> /\ ~IsInt(last'.capacity)
                     THEN Len(all_rooms) ELSE 0
                /\ last'.invalid_hour_input =
                     IF last'.hour # <<>> /\ ~IsInt(last'.hour)
                     THEN Len(all_rooms) ELSE 0
                /\ ListsInOrder(last'.results, SearchWanted')
    ]_vars

\* C17 witness: a search with a capacity filter that is not a number and a
\* building filter has reported the capacity for both rooms and listed one.
C17_Witness ==
  /\ pc = "pause" /\ last.cmd = "search"
  /\ last.capacity = <<"x">> /\ last.building # <<>>
  /\ Len(all_rooms) = 2 /\ last.invalid_capacity = 2
  /\ Len(last.results) = 1

\* C18: a create that succeeds adds one room at the end, with the
\* identifier, building and capacity given and no booked hour, and leaves
\* the rooms before it as they were, in their order; a create of a new
\* identifier with a capacity that is a number succeeds.
C18_CreateAppends ==
  [][ (pc = "menu" /\ last'.cmd = "create") =>
        /\ (find_room_by_id(all_rooms, last'.room_no) = 0
              /\ IsInt(last'.capacity))
             => last'.msg = "Success"
        /\ last'.msg = "Success"
             => /\ Len(all_rooms') = Len(all_rooms) + 1
                /\ SubSeq(all_rooms', 1, Len(all_rooms)) = all_rooms
                /\ LET new == all_rooms'[Len(all_rooms')]
                   IN /\ new.room_no = last'.room_no
                      /\ new.building = last'.building
                      /\ new.capacity = ParseInt(last'.capacity).val
                      /\ new.booked_hours = <<>>
    ]_vars

\* C18 witness: a second room has just been created after a room that has a
\* booked hour.
C18_Witness ==
  /\ pc = "pause" /\ last.cmd = "create" /\ last.msg = "Success"
  /\ Len(all_rooms) = 2
  /\ all_rooms[1].booked_hours # <<>>
  /\ all_rooms[2].room_no = last.room_no

\* C19: a book that succeeds adds one h to the booked hours of the room its
\* identifier resolves to and changes nothing else: the other hours of that
\* room, its attributes, every other room, and the size and order of the
\* registry; a book of an existing room with an hour outside 0..23 is
\* rejected and changes nothing.
C19_BookFrame ==
  [][ (pc = "menu" /\ last'.cmd = "book") =>
        LET r == find_room_by_id(all_rooms, last'.room_no)
            h == ParseInt(last'.hour)
        IN /\ last'.msg = "Success"
                => /\ r # 0 /\ h.ok
                   /\ Len(all_rooms') = Len(all_rooms)
                   /\ \A i \in 1..Len(all_rooms) :
                        i # r => all_rooms'[i] = all_rooms[i]
                   /\ all_rooms'[r].room_no = all_rooms[r].room_no
                   /\ all_rooms'[r].building = all_rooms[r].building
                   /\ all_rooms'[r].capacity = all_rooms[r].capacity
                   /\ Len(all_rooms'[r].booked_hours)
                        = Len(all_rooms[r].booked_hours) + 1
                   /\ \A x \in Elems(all_rooms'[r].booked_hours) :
                        Count(all_rooms'[r].booked_hours, x)
                          = Count(all_rooms[r].booked_hours, x)
                              + (IF x = h.val THEN 1 ELSE 0)
           /\ (r # 0 /\ h.ok /\ h.val \notin 0..23)
                => /\ last'.msg = "Hour must be between 0 and 23"
                   /\ last'.err = "none"
                   /\ all_rooms' = all_rooms
    ]_vars

\* C19 witness: hour 5 has just been booked on the second of two rooms,
\* which had an hour booked before.
C19_Witness ==
  /\ pc = "pause" /\ last.cmd = "book" /\ last.msg = "Success"
  /\ Len(all_rooms) = 2
  /\ find_room_by_id(all_rooms, last.room_no) = 2
  /\ Len(all_rooms[2].booked_hours) >= 2
  /\ all_rooms[1].booked_hours # <<>>

\* C20: a search, a view (also of an unknown room, which ends with
\* RoomNotFound) and the save at exit leave the registry as it was.
C20_ReadOnlyCommands ==
  [][ (pc = "menu" /\ last'.cmd \in {"search", "view", "exit"})
        => /\ all_rooms' = all_rooms
           /\ (last'.cmd = "view"
                 /\ \A i \in 1..Len(all_rooms) :
                      all_rooms[i].room_no # last'.room_no)
                => last'.err = "RoomNotFound"
    ]_vars

\* C20 witness: a view of an unknown room has just ended with RoomNotFound
\* in a registry whose room has booked hours.
C20_Witness ==
  /\ pc = "pause" /\ last.cmd = "view" /\ last.err = "RoomNotFound"
  /\ Len(all_rooms) >= 1
  /\ all_rooms[1].booked_hours # <<>>

====
